---- MODULE Spec2Model ----
(***************************************************************************)
(* LTRROE scheduling engine (src/algorithmes.py): duration estimation,     *)
(* forward pass, backward pass, triangular sampling and Monte Carlo.       *)
(*                                                                         *)
(* Numbers.  Python floats are modelled in fixed point:                    *)
(*   - a slowdown factor is an integer count of 1/SlowDen;                 *)
(*   - a triangular sample is an integer count of 1/SampleDen days;        *)
(*   - a date or a timedelta is an integer count of ticks, TicksPerDay     *)
(*     ticks to the day (timedelta(days=x) converts days to ticks,         *)
(*     timedelta.days converts back by floor division);                    *)
(*   - a uniform draw u is a fraction <<k, d>> = k/d with 0 <= k < d       *)
(*     (random.random() returns a value in [0,1)).                         *)
(* A dict is a function whose DOMAIN is its key set; the insertion-ordered *)
(* dict proj_tasks is the sequence of its values in insertion order.       *)
(***************************************************************************)
EXTENDS Integers, Sequences, FiniteSets, TLC

VARIABLES
    project,            \* the Project aggregate handed to the engine
    pc,                 \* position of the running entry point
    err,                \* name of the exception that ended the call, or ""
    task_duration,      \* calculate_schedule: task_id -> duration (ticks)
    processed,          \* forward pass: set of processed task ids
    early_start,        \* forward pass: task_id -> date
    early_finish,       \* forward pass: task_id -> date
    idx,                \* forward pass: position of the for loop in proj_tasks
    progress,           \* forward pass: tasks processed by the current scan
    project_deadline,   \* backward pass: max(early_finish.values())
    tasks_sorted,       \* backward pass: task ids by early_finish descending
    bidx,               \* backward pass: position of the for loop in tasks_sorted
    late_start,         \* backward pass: task_id -> date
    late_finish,        \* backward pass: task_id -> date
    random_duration,    \* forward_pass_with_random_duration: caller's map
    num_simulations,    \* monte_carlo_simulation: trial count
    sim,                \* monte_carlo_simulation: trials started so far
    project_durations,  \* monte_carlo_simulation: list of recorded samples
    tri_args,           \* random_triangular: <<low, most_likely, high, u>>
    tri_result,         \* random_triangular: returned sample (1/SampleDen days)
    employee,           \* calculate_slowdown_factor: the employee argument
    task,               \* estimator calls: the task argument
    slowdown,           \* calculate_slowdown_factor: outcome of the call
    duration,           \* calculate_task_duration: outcome of the call
    rng,                \* the random module's generator: seed and draws taken
    previous_durations  \* list returned by the previous seeded simulation

vars == <<project, pc, err, task_duration, processed, early_start,
          early_finish, idx, progress, project_deadline, tasks_sorted, bidx,
          late_start, late_finish, random_duration, num_simulations, sim,
          project_durations, tri_args, tri_result, employee, task, slowdown,
          duration, rng, previous_durations>>

(***************************************************************************)
(* Bounds                                                                  *)
(***************************************************************************)
MaxTasks == 3        \* tasks per project, schedule entry points
MaxDeps == 2         \* dependencies per project
MaxMCTasks == 2      \* tasks per project, Monte Carlo entry point
MaxMCDeps == 1       \* dependencies per project, Monte Carlo entry point
MaxTrials == 2       \* num_simulations
MaxEst == 4          \* largest estimate handed to random_triangular
MaxUDen == 4         \* largest denominator of a uniform draw handed to random_triangular
MaxSeed == 1         \* largest seed handed to the generator

(***************************************************************************)
(* Fixed-point units                                                       *)
(***************************************************************************)
SlowDen == 1200
SampleDen == 60
TicksPerDay == SampleDen * SlowDen
PctDen == 100
DefaultEfficiency == 20
TotalMismatch == 3
PartialBase == 2
OverloadDen == 20
PertDen == 6
StartDay == 3

(***************************************************************************)
(* Generic helpers                                                         *)
(***************************************************************************)
Range(s) == {s[i] : i \in DOMAIN s}

EmptyMap == <<>>

Put(m, k, v) == [x \in (DOMAIN m) \cup {k} |-> IF x = k THEN v ELSE m[x]]

Values(m) == {m[k] : k \in DOMAIN m}

SetMax(S) == CHOOSE x \in S : \A y \in S : y <= x

SetMin(S) == CHOOSE x \in S : \A y \in S : x <= y

RECURSIVE SqrtSearch(_, _, _)
SqrtSearch(x, lo, hi) ==
    IF lo >= hi THEN lo
    ELSE LET mid == (lo + hi + 1) \div 2
         IN  IF mid * mid <= x THEN SqrtSearch(x, mid, hi)
                               ELSE SqrtSearch(x, lo, mid - 1)

ISqrt(x) == SqrtSearch(x, 0, IF x < 46340 THEN x ELSE 46340)

\* nearest integer to the square root of num/den
RoundSqrt(num, den) == (ISqrt((4 * num) \div den) + 1) \div 2

TaskIds(proj) == {proj.proj_tasks[i].task_id : i \in DOMAIN proj.proj_tasks}

TaskOf(proj, task_id) ==
    proj.proj_tasks[CHOOSE i \in DOMAIN proj.proj_tasks :
                        proj.proj_tasks[i].task_id = task_id]

(***************************************************************************)
(* DependencyIndex                                                         *)
(***************************************************************************)
\* faulty variant: only mandatory dependencies count
get_predecessors_mandatory_only(proj, task_id) ==
    SelectSeq(proj.proj_dependencies,
              LAMBDA dep : dep.dep_to_task = task_id /\ dep.dep_mandatory)

\* faulty variant: the loop stops at the first matching dependency
get_predecessors_first_match(proj, task_id) ==
    LET found == SelectSeq(proj.proj_dependencies,
                           LAMBDA dep : dep.dep_to_task = task_id)
    IN  IF found = <<>> THEN <<>> ELSE <<found[1]>>

get_predecessors(proj, task_id) ==
    SelectSeq(proj.proj_dependencies, LAMBDA dep : dep.dep_to_task = task_id)

get_successors(proj, task_id) ==
    SelectSeq(proj.proj_dependencies, LAMBDA dep : dep.dep_from_task = task_id)

PredIds(proj, task_id) ==
    {dep.dep_from_task : dep \in Range(get_predecessors(proj, task_id))}

SuccIds(proj, task_id) ==
    {dep.dep_to_task : dep \in Range(get_successors(proj, task_id))}

(***************************************************************************)
(* DurationEstimator.  A call returns [raised |-> exception name or "",    *)
(* value |-> result].                                                      *)
(***************************************************************************)
Ok(v) == [raised |-> "", value |-> v]

Raise(e) == [raised |-> e, value |-> 0]

\* faulty variant: overload subtracted from 1.0 on line 64
calculate_slowdown_factor_overload_speeds(emp, tsk) ==
    LET required_skills == tsk.task_skills
        missing_skills == SelectSeq(required_skills,
                              LAMBDA skill : skill \notin emp.emp_skills)
        missing_count == Len(missing_skills)
        total_count == Len(required_skills)
        efficiencies == {IF skill \in DOMAIN emp.emp_efficiency
                            THEN emp.emp_efficiency[skill]
                            ELSE DefaultEfficiency :
                         skill \in Range(required_skills)}
        min_efficiency == SetMin(efficiencies)
        overload == emp.emp_current_load - emp.emp_max_daily_hours
        overload_num == IF emp.emp_current_load > emp.emp_max_daily_hours
                           THEN OverloadDen - overload
                           ELSE OverloadDen
    IN  IF missing_count = total_count THEN Ok(TotalMismatch * SlowDen)
        ELSE IF missing_count > 0 THEN Raise("NameError")
        ELSE IF min_efficiency = 0 THEN Raise("ZeroDivisionError")
        ELSE Ok((SlowDen * PctDen * overload_num) \div (min_efficiency * OverloadDen))

\* faulty variant: the all-skills-missing test of lines 34-35 left out
calculate_slowdown_factor_no_total_branch(emp, tsk) ==
    LET required_skills == tsk.task_skills
        missing_skills == SelectSeq(required_skills,
                              LAMBDA skill : skill \notin emp.emp_skills)
        missing_count == Len(missing_skills)
        efficiencies == {IF skill \in DOMAIN emp.emp_efficiency
                            THEN emp.emp_efficiency[skill]
                            ELSE DefaultEfficiency :
                         skill \in Range(required_skills)}
        min_efficiency == SetMin(efficiencies)
        overload == emp.emp_current_load - emp.emp_max_daily_hours
        overload_num == IF emp.emp_current_load > emp.emp_max_daily_hours
                           THEN OverloadDen + overload
                           ELSE OverloadDen
    IN  IF missing_count > 0 THEN Raise("NameError")
        ELSE IF required_skills = <<>> THEN Raise("ValueError")
        ELSE IF min_efficiency = 0 THEN Raise("ZeroDivisionError")
        ELSE Ok((SlowDen * PctDen * overload_num) \div (min_efficiency * OverloadDen))

\* faulty variant: a task without required skills is not slowed down
calculate_slowdown_factor_empty_is_neutral(emp, tsk) ==
    LET required_skills == tsk.task_skills
        missing_skills == SelectSeq(required_skills,
                              LAMBDA skill : skill \notin emp.emp_skills)
        missing_count == Len(missing_skills)
        total_count == Len(required_skills)
        efficiencies == {IF skill \in DOMAIN emp.emp_efficiency
                            THEN emp.emp_efficiency[skill]
                            ELSE DefaultEfficiency :
                         skill \in Range(required_skills)}
        min_efficiency == SetMin(efficiencies)
        overload == emp.emp_current_load - emp.emp_max_daily_hours
        overload_num == IF emp.emp_current_load > emp.emp_max_daily_hours
                           THEN OverloadDen + overload
                           ELSE OverloadDen
    IN  IF total_count = 0 THEN Ok(SlowDen)
        ELSE IF missing_count = total_count THEN Ok(TotalMismatch * SlowDen)
        ELSE IF missing_count > 0 THEN Raise("NameError")
        ELSE IF min_efficiency = 0 THEN Raise("ZeroDivisionError")
        ELSE Ok((SlowDen * PctDen * overload_num) \div (min_efficiency * OverloadDen))

calculate_slowdown_factor(emp, tsk) ==
    LET required_skills == tsk.task_skills
        missing_skills == SelectSeq(required_skills,
                              LAMBDA skill : skill \notin emp.emp_skills)
        missing_count == Len(missing_skills)
        total_count == Len(required_skills)
        efficiencies == {IF skill \in DOMAIN emp.emp_efficiency
                            THEN emp.emp_efficiency[skill]
                            ELSE DefaultEfficiency :
                         skill \in Range(required_skills)}
        min_efficiency == SetMin(efficiencies)
        overload == emp.emp_current_load - emp.emp_max_daily_hours
        overload_num == IF emp.emp_current_load > emp.emp_max_daily_hours
                           THEN OverloadDen + overload
                           ELSE OverloadDen
    IN  IF missing_count = total_count THEN Ok(TotalMismatch * SlowDen)
        ELSE IF missing_count > 0 THEN Raise("NameError")
        ELSE IF min_efficiency = 0 THEN Raise("ZeroDivisionError")
        ELSE Ok((SlowDen * PctDen * overload_num) \div (min_efficiency * OverloadDen))

\* src/eng/algorithmes.py: the partial-gap branch reads missing_ratio
calculate_slowdown_factor_eng(emp, tsk) ==
    LET required_skills == tsk.task_skills
        missing_skills == SelectSeq(required_skills,
                              LAMBDA skill : skill \notin emp.emp_skills)
        missing_count == Len(missing_skills)
        total_count == Len(required_skills)
        efficiencies == {IF skill \in DOMAIN emp.emp_efficiency
                            THEN emp.emp_efficiency[skill]
                            ELSE DefaultEfficiency :
                         skill \in Range(required_skills)}
        min_efficiency == SetMin(efficiencies)
        overload == emp.emp_current_load - emp.emp_max_daily_hours
        overload_num == IF emp.emp_current_load > emp.emp_max_daily_hours
                           THEN OverloadDen + overload
                           ELSE OverloadDen
    IN  IF missing_count = total_count THEN Ok(TotalMismatch * SlowDen)
        ELSE IF missing_count > 0
        THEN Ok(PartialBase * SlowDen + (missing_count * SlowDen) \div total_count)
        ELSE IF min_efficiency = 0 THEN Raise("ZeroDivisionError")
        ELSE Ok((SlowDen * PctDen * overload_num) \div (min_efficiency * OverloadDen))

\* src/rus/algorithmes.py: the same statements as src/eng/algorithmes.py
calculate_slowdown_factor_rus(emp, tsk) ==
    LET required_skills == tsk.task_skills
        missing_skills == SelectSeq(required_skills,
                              LAMBDA skill : skill \notin emp.emp_skills)
        missing_count == Len(missing_skills)
        total_count == Len(required_skills)
        efficiencies == {IF skill \in DOMAIN emp.emp_efficiency
                            THEN emp.emp_efficiency[skill]
                            ELSE DefaultEfficiency :
                         skill \in Range(required_skills)}
        min_efficiency == SetMin(efficiencies)
        overload == emp.emp_current_load - emp.emp_max_daily_hours
        overload_num == IF emp.emp_current_load > emp.emp_max_daily_hours
                           THEN OverloadDen + overload
                           ELSE OverloadDen
    IN  IF missing_count = total_count THEN Ok(TotalMismatch * SlowDen)
        ELSE IF missing_count > 0
        THEN Ok(PartialBase * SlowDen + (missing_count * SlowDen) \div total_count)
        ELSE IF min_efficiency = 0 THEN Raise("ZeroDivisionError")
        ELSE Ok((SlowDen * PctDen * overload_num) \div (min_efficiency * OverloadDen))

PertSum(tsk) ==
    tsk.task_duration_dist[1] + tsk.task_duration_dist[2] * 4
        + tsk.task_duration_dist[3]

\* the value of an absent project argument
None == [none |-> TRUE]

\* faulty variant: the slowdown taken from the last assignee
calculate_task_duration_last_assignee(tsk, proj) ==
    LET base_duration == PertSum(tsk) * (TicksPerDay \div PertDen)
    IN  IF proj = None \/ tsk.task_assigned_to = <<>> THEN Ok(base_duration)
        ELSE LET primary_emp_id == tsk.task_assigned_to[Len(tsk.task_assigned_to)]
             IN  IF primary_emp_id \notin DOMAIN proj.proj_employees
                    THEN Ok(base_duration)
                    ELSE LET slow == calculate_slowdown_factor(
                                 proj.proj_employees[primary_emp_id], tsk)
                         IN  IF slow.raised # "" THEN slow
                             ELSE Ok(PertSum(tsk) * slow.value
                                        * (SampleDen \div PertDen))

\* the result is in ticks: days * TicksPerDay
calculate_task_duration(tsk, proj) ==
    LET base_duration == PertSum(tsk) * (TicksPerDay \div PertDen)
    IN  IF proj = None \/ tsk.task_assigned_to = <<>> THEN Ok(base_duration)
        ELSE LET primary_emp_id == tsk.task_assigned_to[1]
             IN  IF primary_emp_id \notin DOMAIN proj.proj_employees
                    THEN Ok(base_duration)
                    ELSE LET slow == calculate_slowdown_factor(
                                 proj.proj_employees[primary_emp_id], tsk)
                         IN  IF slow.raised # "" THEN slow
                             ELSE Ok(PertSum(tsk) * slow.value
                                        * (SampleDen \div PertDen))

(***************************************************************************)
(* Project families the entry points are called with.  Task ids are        *)
(* 1..n in insertion order; a dependency may name any id of 1..MaxTasks,   *)
(* so it may point backwards, at itself, or at an id that is not a task.   *)
(***************************************************************************)
Employees ==
    (1 :> [emp_id |-> 1, emp_skills |-> {"a"},
           emp_efficiency |-> ("a" :> 50),
           emp_current_load |-> 0, emp_max_daily_hours |-> 8])
    @@ (2 :> [emp_id |-> 2, emp_skills |-> {"a", "b"},
              emp_efficiency |-> ("a" :> 100),
              emp_current_load |-> 10, emp_max_daily_hours |-> 8])

Profile(dist, skills, assigned) ==
    [task_duration_dist |-> dist, task_skills |-> skills,
     task_assigned_to |-> assigned]

ScheduleProfiles ==
    { Profile(<<0, 0, 0>>, <<"a">>, <<>>),
      Profile(<<2, 3, 4>>, <<"a">>, <<>>) }

\* a task slowed down by its assignee
SlowedProfiles == {Profile(<<4, 5, 6>>, <<"a">>, <<1>>)}

MkTask(i, p) ==
    [task_id |-> i, task_skills |-> p.task_skills,
     task_duration_dist |-> p.task_duration_dist,
     task_assigned_to |-> p.task_assigned_to]

TaskLists(n, profiles) ==
    {[i \in 1..n |-> MkTask(i, f[i])] : f \in [1..n -> profiles]}

MkDep(pair) ==
    [dep_from_task |-> pair[1], dep_to_task |-> pair[2],
     dep_type |-> "FS", dep_lag |-> 0, dep_mandatory |-> TRUE]

\* the type tag, lag (days) and mandatory flag a Dependency may carry
DepTags == [dep_type : {"FS", "SS"}, dep_lag : {0, 2}, dep_mandatory : BOOLEAN]

\* the dependency list dl with the tags of its k-th entry set to tags[k]
Retag(dl, tags) ==
    [k \in DOMAIN dl |->
        [dl[k] EXCEPT !.dep_type = tags[k].dep_type,
                      !.dep_lag = tags[k].dep_lag,
                      !.dep_mandatory = tags[k].dep_mandatory]]

Retaggings(dl) == {Retag(dl, tags) : tags \in [DOMAIN dl -> DepTags]}

RECURSIVE SetToSeq(_)
SetToSeq(S) ==
    IF S = {} THEN <<>>
    ELSE LET x == CHOOSE y \in S : \A z \in S :
                      \/ y[1] < z[1]
                      \/ (y[1] = z[1] /\ y[2] <= z[2])
         IN  <<x>> \o SetToSeq(S \ {x})

RECURSIVE SubsetsUpTo(_, _)
SubsetsUpTo(S, k) ==
    IF k = 0 THEN {{}}
    ELSE LET smaller == SubsetsUpTo(S, k - 1)
         IN  smaller \cup {D \cup {x} : D \in smaller, x \in S}

DepLists(maxId, maxDeps) ==
    {[i \in DOMAIN SetToSeq(S) |-> MkDep(SetToSeq(S)[i])] :
        S \in SubsetsUpTo((1..maxId) \X (1..maxId), maxDeps)}

MkProject(tl, dl) ==
    [proj_tasks |-> tl, proj_dependencies |-> dl,
     proj_employees |-> Employees,
     proj_start_date |-> StartDay * TicksPerDay]

\* a task whose first assignee has one of its two required skills
GapProfiles == {Profile(<<2, 3, 4>>, <<"a", "b">>, <<1, 2>>)}

\* up to MaxTasks unassigned tasks; one or two tasks some of which are
\* assigned
ScheduleTaskLists ==
    UNION {TaskLists(n, ScheduleProfiles) : n \in 0..MaxTasks}
        \cup TaskLists(1, ScheduleProfiles \cup SlowedProfiles)
        \cup TaskLists(2, ScheduleProfiles \cup SlowedProfiles)
        \cup TaskLists(1, GapProfiles)

ScheduleDepLists == DepLists(MaxTasks, MaxDeps)

(***************************************************************************)
(* Graph predicates used to state the claims' preconditions                *)
(***************************************************************************)
DepPairs(proj) ==
    {<<dep.dep_from_task, dep.dep_to_task>> : dep \in Range(proj.proj_dependencies)}

DepNodes(proj) ==
    {e[1] : e \in DepPairs(proj)} \cup {e[2] : e \in DepPairs(proj)}

RECURSIVE ReachFrom(_, _, _)
ReachFrom(proj, frontier, seen) ==
    LET next == {e[2] : e \in {d \in DepPairs(proj) : d[1] \in frontier}} \ seen
    IN  IF next = {} THEN seen ELSE ReachFrom(proj, next, seen \cup next)

\* nodes reachable from n by one or more dependencies
Descendants(proj, n) == ReachFrom(proj, {n}, {})

Cyclic(proj) == \E n \in DepNodes(proj) : n \in Descendants(proj, n)

Acyclic(proj) == ~Cyclic(proj)

WellFormed(proj) == DepNodes(proj) \subseteq TaskIds(proj)

(***************************************************************************)
(* ForwardPass.  A traversal state is                                      *)
(* [processed, early_start, early_finish]; one iteration of the for loop   *)
(* over proj_tasks.items() handles the task at position i.                 *)
(***************************************************************************)
FreshPass == [processed |-> {}, early_start |-> EmptyMap, early_finish |-> EmptyMap]

\* faulty variant: only tasks without predecessors are ever eligible
EligibleRootsOnly(proj, st, task_id) ==
    get_predecessors(proj, task_id) = <<>>

\* line 124 and line 224
Eligible(proj, st, task_id) ==
    \/ get_predecessors(proj, task_id) = <<>>
    \/ \A p \in PredIds(proj, task_id) : p \in st.processed

\* faulty variant: one processed predecessor is enough (any for all)
ScheduleIterAnyPredecessor(proj, dur, st, i) ==
    LET task_id == proj.proj_tasks[i].task_id
        preds == get_predecessors(proj, task_id)
        done == PredIds(proj, task_id) \cap st.processed
    IN  IF task_id \in st.processed THEN st
        ELSE IF preds = <<>> \/ done # {}
        THEN LET start_date ==
                     IF preds = <<>> THEN proj.proj_start_date
                     ELSE SetMax({st.early_finish[p] : p \in done})
                 finish_date == start_date + dur[task_id]
             IN  [processed |-> st.processed \cup {task_id},
                  early_start |-> Put(st.early_start, task_id, start_date),
                  early_finish |-> Put(st.early_finish, task_id, finish_date)]
        ELSE st

\* faulty variant: the duration is subtracted from the start date
ScheduleIterSubtract(proj, dur, st, i) ==
    LET task_id == proj.proj_tasks[i].task_id
        preds == get_predecessors(proj, task_id)
    IN  IF task_id \in st.processed THEN st
        ELSE IF Eligible(proj, st, task_id)
        THEN LET start_date ==
                     IF preds = <<>> THEN proj.proj_start_date
                     ELSE SetMax({st.early_finish[p] : p \in PredIds(proj, task_id)})
                 finish_date == start_date - dur[task_id]
             IN  [processed |-> st.processed \cup {task_id},
                  early_start |-> Put(st.early_start, task_id, start_date),
                  early_finish |-> Put(st.early_finish, task_id, finish_date)]
        ELSE st

\* faulty variant: predecessor ids that are not tasks are skipped
ScheduleIterKnownPredecessors(proj, dur, st, i) ==
    LET task_id == proj.proj_tasks[i].task_id
        preds == PredIds(proj, task_id) \cap TaskIds(proj)
    IN  IF task_id \in st.processed THEN st
        ELSE IF preds \subseteq st.processed
        THEN LET start_date ==
                     IF preds = {} THEN proj.proj_start_date
                     ELSE SetMax({st.early_finish[p] : p \in preds})
                 finish_date == start_date + dur[task_id]
             IN  [processed |-> st.processed \cup {task_id},
                  early_start |-> Put(st.early_start, task_id, start_date),
                  early_finish |-> Put(st.early_finish, task_id, finish_date)]
        ELSE st

\* faulty variant: the start date is the earliest finish of the predecessors
ScheduleIterMinFinish(proj, dur, st, i) ==
    LET task_id == proj.proj_tasks[i].task_id
        preds == get_predecessors(proj, task_id)
    IN  IF task_id \in st.processed THEN st
        ELSE IF Eligible(proj, st, task_id)
        THEN LET start_date ==
                     IF preds = <<>> THEN proj.proj_start_date
                     ELSE SetMin({st.early_finish[p] : p \in PredIds(proj, task_id)})
                 finish_date == start_date + dur[task_id]
             IN  [processed |-> st.processed \cup {task_id},
                  early_start |-> Put(st.early_start, task_id, start_date),
                  early_finish |-> Put(st.early_finish, task_id, finish_date)]
        ELSE st

\* calculate_schedule, body of the for loop
ScheduleIter(proj, dur, st, i) ==
    LET task_id == proj.proj_tasks[i].task_id
        preds == get_predecessors(proj, task_id)
    IN  IF task_id \in st.processed THEN st
        ELSE IF Eligible(proj, st, task_id)
        THEN LET start_date ==
                     IF preds = <<>> THEN proj.proj_start_date
                     ELSE SetMax({st.early_finish[p] : p \in PredIds(proj, task_id)})
                 finish_date == start_date + dur[task_id]
             IN  [processed |-> st.processed \cup {task_id},
                  early_start |-> Put(st.early_start, task_id, start_date),
                  early_finish |-> Put(st.early_finish, task_id, finish_date)]
        ELSE st

\* faulty variant: every task starts at the project start date
RandomForwardIterFromStart(proj, dur, st, i) ==
    LET task_id == proj.proj_tasks[i].task_id
    IN  IF task_id \in st.processed THEN st
        ELSE IF Eligible(proj, st, task_id)
        THEN LET start_date == proj.proj_start_date
                 finish_date == start_date + dur[task_id]
             IN  [processed |-> st.processed \cup {task_id},
                  early_start |-> Put(st.early_start, task_id, start_date),
                  early_finish |-> Put(st.early_finish, task_id, finish_date)]
        ELSE st

\* faulty variant: a task is processed as soon as one predecessor is
RandomForwardIterAnyPredecessor(proj, dur, st, i) ==
    LET task_id == proj.proj_tasks[i].task_id
        preds == get_predecessors(proj, task_id)
        done == PredIds(proj, task_id) \cap st.processed
    IN  IF task_id \in st.processed THEN st
        ELSE IF preds = <<>> \/ done # {}
        THEN LET start_date ==
                     IF preds = <<>> THEN proj.proj_start_date
                     ELSE SetMax({st.early_finish[p] : p \in done})
                 finish_date == start_date + dur[task_id]
             IN  [processed |-> st.processed \cup {task_id},
                  early_start |-> Put(st.early_start, task_id, start_date),
                  early_finish |-> Put(st.early_finish, task_id, finish_date)]
        ELSE st

\* forward_pass_with_random_duration, body of the for loop
RandomForwardIter(proj, dur, st, i) ==
    LET task_id == proj.proj_tasks[i].task_id
        preds == get_predecessors(proj, task_id)
    IN  IF task_id \in st.processed THEN st
        ELSE IF Eligible(proj, st, task_id)
        THEN LET start_date ==
                     IF preds = <<>> THEN proj.proj_start_date
                     ELSE SetMax({st.early_finish[p] : p \in PredIds(proj, task_id)})
                 finish_date == start_date + dur[task_id]
             IN  [processed |-> st.processed \cup {task_id},
                  early_start |-> Put(st.early_start, task_id, start_date),
                  early_finish |-> Put(st.early_finish, task_id, finish_date)]
        ELSE st

PassState == [processed |-> processed, early_start |-> early_start,
              early_finish |-> early_finish]

(***************************************************************************)
(* calculate_schedule, one step per loop iteration                         *)
(***************************************************************************)
UnchangedBackward ==
    UNCHANGED <<project_deadline, tasks_sorted, bidx, late_start, late_finish>>

UnchangedMonteCarlo ==
    UNCHANGED <<num_simulations, sim, project_durations>>

UnchangedTriangular == UNCHANGED <<tri_args, tri_result>>

UnchangedEstimator == UNCHANGED <<employee, task, slowdown, duration>>

UnchangedGenerator == UNCHANGED <<rng, previous_durations>>

\* lines 103-112: the result maps and the duration of every task
CallSchedule ==
    /\ pc = "calculate_schedule"
    /\ LET durs == [i \in DOMAIN project.proj_tasks |->
                       calculate_task_duration(project.proj_tasks[i], project)]
           bad == {i \in DOMAIN durs : durs[i].raised # ""}
       IN  IF bad # {}
           THEN /\ pc' = "raised"
                /\ err' = durs[SetMin(bad)].raised
                /\ UNCHANGED <<task_duration, processed, early_start, early_finish>>
           ELSE /\ pc' = "sched_while"
                /\ err' = ""
                /\ task_duration' = [t \in TaskIds(project) |->
                                        calculate_task_duration(TaskOf(project, t), project).value]
                /\ processed' = {}
                /\ early_start' = EmptyMap
                /\ early_finish' = EmptyMap
    /\ UNCHANGED <<project, idx, progress, random_duration>>
    /\ UnchangedBackward /\ UnchangedMonteCarlo /\ UnchangedTriangular
    /\ UnchangedEstimator /\ UnchangedGenerator

\* line 114: the while condition
ScheduleWhile ==
    /\ pc = "sched_while"
    /\ IF Cardinality(processed) < Len(project.proj_tasks)
       THEN pc' = "sched_for" /\ idx' = 1 /\ progress' = 0
       ELSE pc' = "sched_return" /\ UNCHANGED <<idx, progress>>
    /\ UNCHANGED <<project, err, task_duration, processed, early_start,
                   early_finish, random_duration>>
    /\ UnchangedBackward /\ UnchangedMonteCarlo /\ UnchangedTriangular
    /\ UnchangedEstimator /\ UnchangedGenerator

\* lines 115-141: one iteration of the for loop
ScheduleFor ==
    /\ pc = "sched_for"
    /\ idx <= Len(project.proj_tasks)
    /\ LET st == ScheduleIter(project, task_duration, PassState, idx)
       IN  /\ processed' = st.processed
           /\ early_start' = st.early_start
           /\ early_finish' = st.early_finish
           /\ progress' = progress + Cardinality(st.processed \ processed)
    /\ idx' = idx + 1
    /\ UNCHANGED <<project, pc, err, task_duration, random_duration>>
    /\ UnchangedBackward /\ UnchangedMonteCarlo /\ UnchangedTriangular
    /\ UnchangedEstimator /\ UnchangedGenerator

\* the for loop is exhausted: back to the while condition
ScheduleScanEnd ==
    /\ pc = "sched_for"
    /\ idx > Len(project.proj_tasks)
    /\ pc' = "sched_while"
    /\ UNCHANGED <<project, err, task_duration, processed, early_start,
                   early_finish, idx, progress, random_duration>>
    /\ UnchangedBackward /\ UnchangedMonteCarlo /\ UnchangedTriangular
    /\ UnchangedEstimator /\ UnchangedGenerator

(***************************************************************************)
(* forward_pass_with_random_duration, one step per loop iteration          *)
(***************************************************************************)
RandomForwardWhile ==
    /\ pc = "rfwd_while"
    /\ IF Cardinality(processed) < Len(project.proj_tasks)
       THEN pc' = "rfwd_for" /\ idx' = 1 /\ progress' = 0
       ELSE pc' = "rfwd_return" /\ UNCHANGED <<idx, progress>>
    /\ UNCHANGED <<project, err, task_duration, processed, early_start,
                   early_finish, random_duration>>
    /\ UnchangedBackward /\ UnchangedMonteCarlo /\ UnchangedTriangular
    /\ UnchangedEstimator /\ UnchangedGenerator

RandomForwardFor ==
    /\ pc = "rfwd_for"
    /\ idx <= Len(project.proj_tasks)
    /\ LET st == RandomForwardIter(project, random_duration, PassState, idx)
       IN  /\ processed' = st.processed
           /\ early_start' = st.early_start
           /\ early_finish' = st.early_finish
           /\ progress' = progress + Cardinality(st.processed \ processed)
    /\ idx' = idx + 1
    /\ UNCHANGED <<project, pc, err, task_duration, random_duration>>
    /\ UnchangedBackward /\ UnchangedMonteCarlo /\ UnchangedTriangular
    /\ UnchangedEstimator /\ UnchangedGenerator

RandomForwardScanEnd ==
    /\ pc = "rfwd_for"
    /\ idx > Len(project.proj_tasks)
    /\ pc' = "rfwd_while"
    /\ UNCHANGED <<project, err, task_duration, processed, early_start,
                   early_finish, idx, progress, random_duration>>
    /\ UnchangedBackward /\ UnchangedMonteCarlo /\ UnchangedTriangular
    /\ UnchangedEstimator /\ UnchangedGenerator

(***************************************************************************)
(* BackwardPass                                                            *)
(***************************************************************************)
\* faulty variant: reverse=True forgotten, the order is ascending
RECURSIVE SortedAscending(_, _)
SortedAscending(ids, key) ==
    IF ids = <<>> THEN <<>>
    ELSE LET bottom == SetMin({key[ids[i]] : i \in DOMAIN ids})
             first == SetMin({i \in DOMAIN ids : key[ids[i]] = bottom})
             rest == [j \in 1..(Len(ids) - 1) |->
                         IF j < first THEN ids[j] ELSE ids[j + 1]]
         IN  <<ids[first]>> \o SortedAscending(rest, key)

\* sorted(..., key=early_finish, reverse=True): stable, ties keep list order
RECURSIVE SortedDescending(_, _)
SortedDescending(ids, key) ==
    IF ids = <<>> THEN <<>>
    ELSE LET top == SetMax({key[ids[i]] : i \in DOMAIN ids})
             first == SetMin({i \in DOMAIN ids : key[ids[i]] = top})
             rest == [j \in 1..(Len(ids) - 1) |->
                         IF j < first THEN ids[j] ELSE ids[j + 1]]
         IN  <<ids[first]>> \o SortedDescending(rest, key)

TaskIdList(proj) == [i \in DOMAIN proj.proj_tasks |-> proj.proj_tasks[i].task_id]

\* lines 166-169: late_finish of the tasks without successors
TerminalLateFinish(proj, deadline) ==
    [t \in {x \in TaskIds(proj) : get_successors(proj, x) = <<>>} |-> deadline]

\* faulty variant: a task with successors keeps the project deadline as late finish
BackwardIterNoSuccessors(proj, dur, deadline, lst, lfn, task_id) ==
    LET lfn2 == Put(lfn, task_id, deadline)
    IN  [late_finish |-> lfn2,
         late_start |-> Put(lst, task_id, lfn2[task_id] - dur[task_id])]

\* faulty variant: late_start set to late_finish, the duration not subtracted
BackwardIterNoDuration(proj, dur, deadline, lst, lfn, task_id) ==
    LET succs == get_successors(proj, task_id)
        min_late_start ==
            SetMin({IF s \in DOMAIN lst THEN lst[s] ELSE deadline :
                       s \in SuccIds(proj, task_id)})
        lfn2 == IF succs # <<>> THEN Put(lfn, task_id, min_late_start) ELSE lfn
    IN  [late_finish |-> lfn2,
         late_start |-> Put(lst, task_id, lfn2[task_id])]

\* lines 174-183: body of the for loop over tasks_sorted
BackwardIter(proj, dur, deadline, lst, lfn, task_id) ==
    LET succs == get_successors(proj, task_id)
        min_late_start ==
            SetMin({IF s \in DOMAIN lst THEN lst[s] ELSE deadline :
                       s \in SuccIds(proj, task_id)})
        lfn2 == IF succs # <<>> THEN Put(lfn, task_id, min_late_start) ELSE lfn
    IN  [late_finish |-> lfn2,
         late_start |-> Put(lst, task_id, lfn2[task_id] - dur[task_id])]

\* faulty variant: the deadline taken as the earliest finish
ProjectDeadlineMin(ef) == SetMin(Values(ef))

\* line 163
ProjectDeadline(ef) == SetMax(Values(ef))

\* faulty variant: max(..., default=project.proj_start_date) on line 163
CallBackwardDefaultDeadline ==
    /\ pc = "sched_return"
    /\ LET deadline == IF DOMAIN early_finish = {} THEN project.proj_start_date
                       ELSE ProjectDeadline(early_finish)
       IN  /\ pc' = "back_for"
           /\ err' = ""
           /\ project_deadline' = deadline
           /\ late_start' = EmptyMap
           /\ late_finish' = TerminalLateFinish(project, deadline)
           /\ tasks_sorted' = SortedDescending(TaskIdList(project), early_finish)
           /\ bidx' = 1
    /\ UNCHANGED <<project, task_duration, processed, early_start,
                   early_finish, idx, progress, random_duration>>
    /\ UnchangedMonteCarlo /\ UnchangedTriangular
    /\ UnchangedEstimator /\ UnchangedGenerator

\* lines 159-172
CallBackward ==
    /\ pc = "sched_return"
    /\ IF DOMAIN early_finish = {}
       THEN /\ pc' = "raised"
            /\ err' = "ValueError"
            /\ UNCHANGED <<project_deadline, tasks_sorted, bidx, late_start,
                           late_finish>>
       ELSE /\ pc' = "back_for"
            /\ err' = ""
            /\ project_deadline' = ProjectDeadline(early_finish)
            /\ late_start' = EmptyMap
            /\ late_finish' = TerminalLateFinish(project, ProjectDeadline(early_finish))
            /\ tasks_sorted' = SortedDescending(TaskIdList(project), early_finish)
            /\ bidx' = 1
    /\ UNCHANGED <<project, task_duration, processed, early_start,
                   early_finish, idx, progress, random_duration>>
    /\ UnchangedMonteCarlo /\ UnchangedTriangular
    /\ UnchangedEstimator /\ UnchangedGenerator

\* faulty variant: the loop consumes the caller's task_duration map
BackwardForConsuming ==
    /\ pc = "back_for"
    /\ bidx <= Len(tasks_sorted)
    /\ LET r == BackwardIter(project, task_duration, project_deadline,
                             late_start, late_finish, tasks_sorted[bidx])
       IN  late_start' = r.late_start /\ late_finish' = r.late_finish
    /\ bidx' = bidx + 1
    /\ task_duration' = [t \in (DOMAIN task_duration) \ {tasks_sorted[bidx]} |->
                            task_duration[t]]
    /\ UNCHANGED <<project, pc, err, processed, early_start,
                   early_finish, idx, progress, project_deadline,
                   tasks_sorted, random_duration>>
    /\ UnchangedMonteCarlo /\ UnchangedTriangular
    /\ UnchangedEstimator /\ UnchangedGenerator

\* lines 174-183
BackwardFor ==
    /\ pc = "back_for"
    /\ bidx <= Len(tasks_sorted)
    /\ LET r == BackwardIter(project, task_duration, project_deadline,
                             late_start, late_finish, tasks_sorted[bidx])
       IN  late_start' = r.late_start /\ late_finish' = r.late_finish
    /\ bidx' = bidx + 1
    /\ UNCHANGED <<project, pc, err, task_duration, processed, early_start,
                   early_finish, idx, progress, project_deadline,
                   tasks_sorted, random_duration>>
    /\ UnchangedMonteCarlo /\ UnchangedTriangular
    /\ UnchangedEstimator /\ UnchangedGenerator

BackwardReturn ==
    /\ pc = "back_for"
    /\ bidx > Len(tasks_sorted)
    /\ pc' = "done"
    /\ UNCHANGED <<project, err, task_duration, processed, early_start,
                   early_finish, idx, progress, project_deadline,
                   tasks_sorted, bidx, late_start, late_finish,
                   random_duration>>
    /\ UnchangedMonteCarlo /\ UnchangedTriangular
    /\ UnchangedEstimator /\ UnchangedGenerator

(***************************************************************************)
(* calculate_backward_pass as one call                                     *)
(***************************************************************************)
RECURSIVE BackwardLoop(_, _, _, _, _, _)
BackwardLoop(proj, dur, deadline, sorted, k, acc) ==
    IF k > Len(sorted) THEN acc
    ELSE BackwardLoop(proj, dur, deadline, sorted, k + 1,
             BackwardIter(proj, dur, deadline, acc.late_start,
                          acc.late_finish, sorted[k]))

calculate_backward_pass(proj, ef, dur) ==
    IF DOMAIN ef = {}
    THEN [raised |-> "ValueError", late_start |-> EmptyMap,
          late_finish |-> EmptyMap]
    ELSE LET deadline == ProjectDeadline(ef)
             r == BackwardLoop(proj, dur, deadline,
                      SortedDescending(TaskIdList(proj), ef), 1,
                      [late_start |-> EmptyMap,
                       late_finish |-> TerminalLateFinish(proj, deadline)])
         IN  [raised |-> "", late_start |-> r.late_start,
              late_finish |-> r.late_finish]

(***************************************************************************)
(* The forward pass as one call.  A scan that processes nothing leaves the *)
(* traversal state as it found it, so the while loop repeats it forever:   *)
(* the call does not return (hangs).                                       *)
(***************************************************************************)
RECURSIVE RandomForwardScan(_, _, _, _)
RandomForwardScan(proj, dur, st, i) ==
    IF i > Len(proj.proj_tasks) THEN st
    ELSE RandomForwardScan(proj, dur, RandomForwardIter(proj, dur, st, i), i + 1)

RECURSIVE RandomForwardLoop(_, _, _)
RandomForwardLoop(proj, dur, st) ==
    IF Cardinality(st.processed) < Len(proj.proj_tasks)
    THEN LET st2 == RandomForwardScan(proj, dur, st, 1)
         IN  IF st2.processed = st.processed
             THEN [hangs |-> TRUE, early_finish |-> st.early_finish]
             ELSE RandomForwardLoop(proj, dur, st2)
    ELSE [hangs |-> FALSE, early_finish |-> st.early_finish]

forward_pass_with_random_duration(proj, dur) ==
    RandomForwardLoop(proj, dur, FreshPass)

RECURSIVE ScheduleScan(_, _, _, _)
ScheduleScan(proj, dur, st, i) ==
    IF i > Len(proj.proj_tasks) THEN st
    ELSE ScheduleScan(proj, dur, ScheduleIter(proj, dur, st, i), i + 1)

RECURSIVE ScheduleLoop(_, _, _)
ScheduleLoop(proj, dur, st) ==
    IF Cardinality(st.processed) < Len(proj.proj_tasks)
    THEN LET st2 == ScheduleScan(proj, dur, st, 1)
         IN  IF st2.processed = st.processed
             THEN [hangs |-> TRUE, raised |-> "", early_start |-> st.early_start,
                   early_finish |-> st.early_finish, task_duration |-> dur]
             ELSE ScheduleLoop(proj, dur, st2)
    ELSE [hangs |-> FALSE, raised |-> "", early_start |-> st.early_start,
          early_finish |-> st.early_finish, task_duration |-> dur]

calculate_schedule(proj) ==
    LET durs == [i \in DOMAIN proj.proj_tasks |->
                    calculate_task_duration(proj.proj_tasks[i], proj)]
        bad == {i \in DOMAIN durs : durs[i].raised # ""}
    IN  IF bad # {}
        THEN [hangs |-> FALSE, raised |-> durs[SetMin(bad)].raised,
              early_start |-> EmptyMap, early_finish |-> EmptyMap,
              task_duration |-> EmptyMap]
        ELSE ScheduleLoop(proj,
                 [t \in TaskIds(proj) |->
                     calculate_task_duration(TaskOf(proj, t), proj).value],
                 FreshPass)

(***************************************************************************)
(* random_triangular.  u is the uniform draw <<k, d>> = k/d; the sample is *)
(* returned in 1/SampleDen days.                                           *)
(***************************************************************************)
\* faulty variant: the square root is forgotten
random_triangular_no_sqrt(low, most_likely, high, u) ==
    IF u[1] = 0 THEN Ok(low * SampleDen)
    ELSE IF u[1] = u[2] THEN Ok(high * SampleDen)
    ELSE IF high - low = 0 THEN Raise("ZeroDivisionError")
    ELSE IF u[1] * (high - low) < u[2] * (most_likely - low)
    THEN Ok(low * SampleDen
            + (u[1] * (high - low) * (most_likely - low) * SampleDen) \div u[2])
    ELSE Ok(high * SampleDen
            - ((u[2] - u[1]) * (high - low) * (high - most_likely) * SampleDen)
                  \div u[2])

random_triangular(low, most_likely, high, u) ==
    IF u[1] = 0 THEN Ok(low * SampleDen)
    ELSE IF u[1] = u[2] THEN Ok(high * SampleDen)
    ELSE IF high - low = 0 THEN Raise("ZeroDivisionError")
    ELSE IF u[1] * (high - low) < u[2] * (most_likely - low)
    THEN Ok(low * SampleDen
            + RoundSqrt(u[1] * (high - low) * (most_likely - low)
                          * SampleDen * SampleDen, u[2]))
    ELSE Ok(high * SampleDen
            - RoundSqrt((u[2] - u[1]) * (high - low) * (high - most_likely)
                          * SampleDen * SampleDen, u[2]))

CallRandomTriangular ==
    /\ pc = "random_triangular"
    /\ LET r == random_triangular(tri_args[1], tri_args[2], tri_args[3], tri_args[4])
       IN  IF r.raised # ""
           THEN pc' = "raised" /\ err' = r.raised /\ UNCHANGED tri_result
           ELSE pc' = "tri_return" /\ err' = "" /\ tri_result' = r.value
    /\ UNCHANGED <<project, task_duration, processed, early_start,
                   early_finish, idx, progress, random_duration, tri_args>>
    /\ UnchangedBackward /\ UnchangedMonteCarlo
    /\ UnchangedEstimator /\ UnchangedGenerator

(***************************************************************************)
(* monte_carlo_simulation: one step per trial                              *)
(***************************************************************************)
\* faulty variant: the sample is used as it is, the assignee is not looked at
AdjustedDurationNoSlowdown(proj, tsk, u) ==
    LET base_random == random_triangular(tsk.task_duration_dist[1],
                           tsk.task_duration_dist[2],
                           tsk.task_duration_dist[3], u)
    IN  IF base_random.raised # "" THEN base_random
        ELSE Ok(base_random.value * SlowDen)

\* lines 255-267: the adjusted random duration of one task, in ticks
AdjustedDuration(proj, tsk, u) ==
    LET base_random == random_triangular(tsk.task_duration_dist[1],
                           tsk.task_duration_dist[2],
                           tsk.task_duration_dist[3], u)
    IN  IF base_random.raised # "" THEN base_random
        ELSE IF tsk.task_assigned_to # <<>>
        THEN LET primary_emp_id == tsk.task_assigned_to[1]
             IN  IF primary_emp_id \in DOMAIN proj.proj_employees
                 THEN LET slow == calculate_slowdown_factor(
                              proj.proj_employees[primary_emp_id], tsk)
                      IN  IF slow.raised # "" THEN slow
                          ELSE Ok(base_random.value * slow.value)
                 ELSE Ok(base_random.value * SlowDen)
        ELSE Ok(base_random.value * SlowDen)

\* faulty variant: the duration is rounded to the nearest day
DaysRounded(ticks) == (ticks + TicksPerDay \div 2) \div TicksPerDay

\* timedelta.days
Days(ticks) == ticks \div TicksPerDay

\* faulty variant: a trial without finish dates records a zero duration
TrialNoGuard(proj, draws) ==
    LET adj == [i \in DOMAIN proj.proj_tasks |->
                   AdjustedDuration(proj, proj.proj_tasks[i], draws[i])]
        bad == {i \in DOMAIN adj : adj[i].raised # ""}
        random_durations == [t \in TaskIds(proj) |->
            adj[CHOOSE i \in DOMAIN proj.proj_tasks :
                    proj.proj_tasks[i].task_id = t].value]
        pass == forward_pass_with_random_duration(proj, random_durations)
        finishes == Values(pass.early_finish) \cup {proj.proj_start_date}
    IN  IF bad # {}
        THEN [raised |-> adj[SetMin(bad)].raised, hangs |-> FALSE, samples |-> <<>>]
        ELSE IF pass.hangs
        THEN [raised |-> "", hangs |-> TRUE, samples |-> <<>>]
        ELSE [raised |-> "", hangs |-> FALSE,
              samples |-> <<Days(SetMax(finishes) - proj.proj_start_date)>>]

\* faulty variant: the sample is appended once per task (lines 274-278
\* indented into the loop over the tasks)
TrialSamplePerTask(proj, draws) ==
    LET adj == [i \in DOMAIN proj.proj_tasks |->
                   AdjustedDuration(proj, proj.proj_tasks[i], draws[i])]
        bad == {i \in DOMAIN adj : adj[i].raised # ""}
        random_durations == [t \in TaskIds(proj) |->
            adj[CHOOSE i \in DOMAIN proj.proj_tasks :
                    proj.proj_tasks[i].task_id = t].value]
        pass == forward_pass_with_random_duration(proj, random_durations)
    IN  IF bad # {}
        THEN [raised |-> adj[SetMin(bad)].raised, hangs |-> FALSE, samples |-> <<>>]
        ELSE IF pass.hangs
        THEN [raised |-> "", hangs |-> TRUE, samples |-> <<>>]
        ELSE [raised |-> "", hangs |-> FALSE,
              samples |-> [i \in DOMAIN proj.proj_tasks |->
                              Days(SetMax(Values(pass.early_finish))
                                      - proj.proj_start_date)]]

\* lines 251-278: one trial under the draws of the tasks in order
Trial(proj, draws) ==
    LET adj == [i \in DOMAIN proj.proj_tasks |->
                   AdjustedDuration(proj, proj.proj_tasks[i], draws[i])]
        bad == {i \in DOMAIN adj : adj[i].raised # ""}
        random_durations == [t \in TaskIds(proj) |->
            adj[CHOOSE i \in DOMAIN proj.proj_tasks :
                    proj.proj_tasks[i].task_id = t].value]
        pass == forward_pass_with_random_duration(proj, random_durations)
    IN  IF bad # {}
        THEN [raised |-> adj[SetMin(bad)].raised, hangs |-> FALSE, samples |-> <<>>]
        ELSE IF pass.hangs
        THEN [raised |-> "", hangs |-> TRUE, samples |-> <<>>]
        ELSE IF DOMAIN pass.early_finish # {}
        THEN [raised |-> "", hangs |-> FALSE,
              samples |-> <<Days(SetMax(Values(pass.early_finish))
                                  - proj.proj_start_date)>>]
        ELSE [raised |-> "", hangs |-> FALSE, samples |-> <<>>]

\* the draws a trial may see
UniformDraws == {<<0, 1>>, <<1, 4>>, <<3, 4>>}

Draws(proj) == [DOMAIN proj.proj_tasks -> UniformDraws]

UnchangedPass ==
    UNCHANGED <<task_duration, processed, early_start, early_finish, idx,
                progress, random_duration>>

\* random.random(): an unseeded generator may return any draw; a generator
\* seeded with s returns the stream of s, position by position
Unseeded == [seeded |-> FALSE, seed |-> 0, taken |-> 0]

Seeded(s) == [seeded |-> TRUE, seed |-> s, taken |-> 0]

UniformSeq == <<<<0, 1>>, <<1, 4>>, <<3, 4>>>>

Stream(s, i) == UniformSeq[(((s + 1) * i + s) % Len(UniformSeq)) + 1]

\* the draws of one trial: one call of random.random() per task, in order
TrialDraws(proj, gen) ==
    IF gen.seeded
    THEN {[i \in DOMAIN proj.proj_tasks |-> Stream(gen.seed, gen.taken + i)]}
    ELSE Draws(proj)

Advance(gen, n) == IF gen.seeded THEN [gen EXCEPT !.taken = @ + n] ELSE gen

\* faulty variant: the trial draws from a source the seed does not reach
MonteCarloTrialSystemRandom ==
    /\ pc = "monte_carlo_simulation"
    /\ sim < num_simulations
    /\ \E draws \in Draws(project) :
          LET r == Trial(project, draws)
          IN  /\ pc' = IF r.raised # "" THEN "raised"
                       ELSE IF r.hangs THEN "mc_hang"
                       ELSE "monte_carlo_simulation"
              /\ err' = r.raised
              /\ project_durations' = project_durations \o r.samples
    /\ sim' = sim + 1
    /\ rng' = Advance(rng, Len(project.proj_tasks))
    /\ UNCHANGED <<project, num_simulations, previous_durations>>
    /\ UnchangedPass /\ UnchangedBackward /\ UnchangedTriangular
    /\ UnchangedEstimator

MonteCarloTrial ==
    /\ pc = "monte_carlo_simulation"
    /\ sim < num_simulations
    /\ \E draws \in TrialDraws(project, rng) :
          LET r == Trial(project, draws)
          IN  /\ pc' = IF r.raised # "" THEN "raised"
                       ELSE IF r.hangs THEN "mc_hang"
                       ELSE "monte_carlo_simulation"
              /\ err' = r.raised
              /\ project_durations' = project_durations \o r.samples
    /\ sim' = sim + 1
    /\ rng' = Advance(rng, Len(project.proj_tasks))
    /\ UNCHANGED <<project, num_simulations, previous_durations>>
    /\ UnchangedPass /\ UnchangedBackward /\ UnchangedTriangular
    /\ UnchangedEstimator

MonteCarloReturn ==
    /\ pc = "monte_carlo_simulation"
    /\ sim >= num_simulations
    /\ pc' = "mc_return"
    /\ UNCHANGED <<project, err, num_simulations, sim, project_durations>>
    /\ UnchangedPass /\ UnchangedBackward /\ UnchangedTriangular
    /\ UnchangedEstimator /\ UnchangedGenerator

\* the caller keeps the returned list, seeds the generator with the same
\* seed and calls monte_carlo_simulation again (lines 248-250 start afresh)
SeededRerun ==
    /\ pc = "mc_return"
    /\ rng.seeded
    /\ previous_durations = <<>>
    /\ previous_durations' = <<project_durations>>
    /\ rng' = Seeded(rng.seed)
    /\ project_durations' = <<>>
    /\ sim' = 0
    /\ pc' = "monte_carlo_simulation"
    /\ UNCHANGED <<project, err, num_simulations>>
    /\ UnchangedPass /\ UnchangedBackward /\ UnchangedTriangular
    /\ UnchangedEstimator

(***************************************************************************)
(* monte_carlo_simulation, one step per statement group of a trial: the    *)
(* head of the loop over the trials, one iteration of the loop over the    *)
(* tasks, the forward pass with the recording of the sample.               *)
(***************************************************************************)
\* random.random() called once
NextDraws(gen) ==
    IF gen.seeded THEN {Stream(gen.seed, gen.taken + 1)} ELSE UniformDraws

\* lines 250-251: a trial starts with an empty random_durations map
MonteCarloSim ==
    /\ pc = "monte_carlo_simulation"
    /\ sim < num_simulations
    /\ pc' = "mc_for"
    /\ sim' = sim + 1
    /\ random_duration' = EmptyMap
    /\ idx' = 1
    /\ UNCHANGED <<project, err, task_duration, processed, early_start,
                   early_finish, progress, num_simulations, project_durations>>
    /\ UnchangedBackward /\ UnchangedTriangular
    /\ UnchangedEstimator /\ UnchangedGenerator

\* lines 253-269: one iteration of the loop over proj_tasks.items()
MonteCarloSample ==
    /\ pc = "mc_for"
    /\ idx <= Len(project.proj_tasks)
    /\ \E u \in NextDraws(rng) :
          LET r == AdjustedDuration(project, project.proj_tasks[idx], u)
          IN  IF r.raised # ""
              THEN /\ pc' = "raised"
                   /\ err' = r.raised
                   /\ UNCHANGED <<random_duration, idx>>
              ELSE /\ random_duration' =
                          Put(random_duration, project.proj_tasks[idx].task_id,
                              r.value)
                   /\ idx' = idx + 1
                   /\ UNCHANGED <<pc, err>>
    /\ rng' = Advance(rng, 1)
    /\ UNCHANGED <<project, task_duration, processed, early_start,
                   early_finish, progress, previous_durations>>
    /\ UnchangedBackward /\ UnchangedMonteCarlo /\ UnchangedTriangular
    /\ UnchangedEstimator

\* lines 272-278: the forward pass on random_durations and the sample
MonteCarloForward ==
    /\ pc = "mc_for"
    /\ idx > Len(project.proj_tasks)
    /\ LET pass == forward_pass_with_random_duration(project, random_duration)
       IN  IF pass.hangs
           THEN /\ pc' = "mc_hang"
                /\ UNCHANGED <<early_finish, project_durations>>
           ELSE /\ pc' = "monte_carlo_simulation"
                /\ early_finish' = pass.early_finish
                /\ project_durations' =
                       IF DOMAIN pass.early_finish # {}
                       THEN Append(project_durations,
                                Days(SetMax(Values(pass.early_finish))
                                        - project.proj_start_date))
                       ELSE project_durations
    /\ UNCHANGED <<project, err, task_duration, processed, early_start, idx,
                   progress, random_duration, num_simulations, sim>>
    /\ UnchangedBackward /\ UnchangedTriangular
    /\ UnchangedEstimator /\ UnchangedGenerator

\* lines 210-212 of forward_pass_with_random_duration
CallRandomForward ==
    /\ pc = "forward_pass_with_random_duration"
    /\ pc' = "rfwd_while"
    /\ processed' = {}
    /\ early_start' = EmptyMap
    /\ early_finish' = EmptyMap
    /\ UNCHANGED <<project, err, task_duration, idx, progress, random_duration>>
    /\ UnchangedBackward /\ UnchangedMonteCarlo /\ UnchangedTriangular
    /\ UnchangedEstimator /\ UnchangedGenerator

(***************************************************************************)
(* The estimator's functions called directly                               *)
(***************************************************************************)
UnchangedEngine ==
    /\ UNCHANGED <<project, task_duration, processed, early_start,
                   early_finish, idx, progress, random_duration>>
    /\ UnchangedBackward /\ UnchangedMonteCarlo /\ UnchangedTriangular
    /\ UnchangedGenerator

\* the outcome of a call: the returned value, or the exception raised
Outcome(r, returned) ==
    /\ pc' = IF r.raised # "" THEN "raised" ELSE returned
    /\ err' = r.raised

CallSlowdownFactor ==
    /\ pc = "calculate_slowdown_factor"
    /\ LET r == calculate_slowdown_factor(employee, task)
       IN  Outcome(r, "slowdown_return") /\ slowdown' = r.value
    /\ UNCHANGED <<employee, task, duration>>
    /\ UnchangedEngine

CallSlowdownFactorEng ==
    /\ pc = "eng.calculate_slowdown_factor"
    /\ LET r == calculate_slowdown_factor_eng(employee, task)
       IN  Outcome(r, "eng.slowdown_return") /\ slowdown' = r.value
    /\ UNCHANGED <<employee, task, duration>>
    /\ UnchangedEngine

CallSlowdownFactorRus ==
    /\ pc = "rus.calculate_slowdown_factor"
    /\ LET r == calculate_slowdown_factor_rus(employee, task)
       IN  Outcome(r, "rus.slowdown_return") /\ slowdown' = r.value
    /\ UNCHANGED <<employee, task, duration>>
    /\ UnchangedEngine

CallTaskDuration ==
    /\ pc = "calculate_task_duration"
    /\ LET r == calculate_task_duration(task, project)
       IN  Outcome(r, "duration_return") /\ duration' = r.value
    /\ UNCHANGED <<employee, task, slowdown>>
    /\ UnchangedEngine

(***************************************************************************)
(* Specifications                                                          *)
(***************************************************************************)
Idle ==
    /\ err = ""
    /\ task_duration = EmptyMap
    /\ processed = {}
    /\ early_start = EmptyMap
    /\ early_finish = EmptyMap
    /\ idx = 0
    /\ progress = 0
    /\ project_deadline = 0
    /\ tasks_sorted = <<>>
    /\ bidx = 0
    /\ late_start = EmptyMap
    /\ late_finish = EmptyMap

NoMonteCarlo == num_simulations = 0 /\ sim = 0 /\ project_durations = <<>>

NoTriangular == tri_args = <<>> /\ tri_result = 0

NoEstimator ==
    /\ employee = None
    /\ task = None
    /\ slowdown = 0
    /\ duration = 0

NoGenerator == rng = Unseeded /\ previous_durations = <<>>

\* the demo's deterministic analysis: calculate_schedule, then
\* calculate_backward_pass on its output
InitSchedule ==
    /\ \E tl \in ScheduleTaskLists, dl \in ScheduleDepLists :
           project = MkProject(tl, dl)
    /\ pc = "calculate_schedule"
    /\ random_duration = EmptyMap
    /\ Idle /\ NoMonteCarlo /\ NoTriangular /\ NoEstimator /\ NoGenerator

NextSchedule ==
    \/ CallSchedule
    \/ ScheduleWhile
    \/ ScheduleFor
    \/ ScheduleScanEnd
    \/ CallBackward
    \/ BackwardFor
    \/ BackwardReturn

SpecSchedule == InitSchedule /\ [][NextSchedule]_vars

\* forward_pass_with_random_duration called with a caller-supplied map
PlainProfiles == {Profile(<<2, 3, 4>>, <<"a">>, <<>>)}

RandomTaskLists == UNION {TaskLists(n, PlainProfiles) : n \in 0..MaxTasks}

RandomDurations == {0, (5 * TicksPerDay) \div 4}

InitRandomForward ==
    /\ \E tl \in RandomTaskLists, dl \in ScheduleDepLists :
           /\ project = MkProject(tl, dl)
           /\ random_duration \in [1..Len(tl) -> RandomDurations]
    /\ pc = "forward_pass_with_random_duration"
    /\ Idle /\ NoMonteCarlo /\ NoTriangular /\ NoEstimator /\ NoGenerator

NextRandomForward ==
    \/ CallRandomForward
    \/ RandomForwardWhile
    \/ RandomForwardFor
    \/ RandomForwardScanEnd

\* both forward-pass entry points
InitForward == InitSchedule \/ InitRandomForward

NextForward == NextSchedule \/ NextRandomForward

SpecForward == InitForward /\ [][NextForward]_vars

\* random_triangular over every estimate triple and draw
InitTriangular ==
    /\ \E low \in 0..MaxEst, most_likely \in 0..MaxEst, high \in 0..MaxEst,
          d \in 1..MaxUDen :
           \E k \in 0..(d - 1) :
               /\ low <= most_likely
               /\ most_likely <= high
               /\ tri_args = <<low, most_likely, high, <<k, d>>>>
    /\ tri_result = 0
    /\ pc = "random_triangular"
    /\ project = MkProject(<<>>, <<>>)
    /\ random_duration = EmptyMap
    /\ Idle /\ NoMonteCarlo /\ NoEstimator /\ NoGenerator

NextTriangular == CallRandomTriangular

SpecTriangular == InitTriangular /\ [][NextTriangular]_vars

\* monte_carlo_simulation
MonteCarloProfiles ==
    { Profile(<<3, 3, 3>>, <<"a">>, <<>>),
      Profile(<<2, 3, 4>>, <<"a">>, <<1>>) }

MonteCarloTaskLists == UNION {TaskLists(n, MonteCarloProfiles) : n \in 0..MaxMCTasks}

MonteCarloDepLists == DepLists(MaxMCTasks, MaxMCDeps)

InitMonteCarlo ==
    /\ \E tl \in MonteCarloTaskLists, dl \in MonteCarloDepLists :
           project = MkProject(tl, dl)
    /\ num_simulations \in 0..MaxTrials
    /\ sim = 0
    /\ project_durations = <<>>
    /\ pc = "monte_carlo_simulation"
    /\ random_duration = EmptyMap
    /\ Idle /\ NoTriangular /\ NoEstimator /\ NoGenerator

NextMonteCarlo == MonteCarloTrial \/ MonteCarloReturn

SpecMonteCarlo == InitMonteCarlo /\ [][NextMonteCarlo]_vars

\* monte_carlo_simulation run twice by a caller that seeds the generator
\* before each run
InitSeeded ==
    /\ \E tl \in MonteCarloTaskLists, dl \in MonteCarloDepLists :
           project = MkProject(tl, dl)
    /\ num_simulations \in 0..MaxTrials
    /\ sim = 0
    /\ project_durations = <<>>
    /\ pc = "monte_carlo_simulation"
    /\ random_duration = EmptyMap
    /\ rng \in {Seeded(s) : s \in 0..MaxSeed}
    /\ previous_durations = <<>>
    /\ Idle /\ NoTriangular /\ NoEstimator

NextSeeded == NextMonteCarlo \/ SeededRerun

SpecSeeded == InitSeeded /\ [][NextSeeded]_vars

\* the deterministic analysis of two-task projects without assignees,
\* starting at day 0 or at StartDay
ScenarioProfiles ==
    { Profile(<<2, 3, 4>>, <<"a">>, <<>>),
      Profile(<<4, 5, 6>>, <<"a">>, <<>>) }

ScenarioTaskLists == TaskLists(2, ScenarioProfiles)

ScenarioDepLists == UNION {Retaggings(dl) : dl \in DepLists(2, 1)}

ScenarioStarts == {0, StartDay * TicksPerDay}

InitScenario ==
    /\ \E tl \in ScenarioTaskLists, dl \in ScenarioDepLists,
          start \in ScenarioStarts :
           project = [MkProject(tl, dl) EXCEPT !.proj_start_date = start]
    /\ pc = "calculate_schedule"
    /\ random_duration = EmptyMap
    /\ Idle /\ NoMonteCarlo /\ NoTriangular /\ NoEstimator /\ NoGenerator

SpecScenario == InitScenario /\ [][NextSchedule]_vars

\* the same projects handed to monte_carlo_simulation under a seeded generator
InitScenarioMonteCarlo ==
    /\ \E tl \in ScenarioTaskLists, dl \in ScenarioDepLists,
          start \in ScenarioStarts :
           project = [MkProject(tl, dl) EXCEPT !.proj_start_date = start]
    /\ num_simulations \in 0..MaxTrials
    /\ sim = 0
    /\ project_durations = <<>>
    /\ pc = "monte_carlo_simulation"
    /\ random_duration = EmptyMap
    /\ rng \in {Seeded(s) : s \in 0..MaxSeed}
    /\ previous_durations = <<>>
    /\ Idle /\ NoTriangular /\ NoEstimator

InitTagged == InitScenario \/ InitScenarioMonteCarlo

NextTagged == NextSchedule \/ NextSeeded

SpecTagged == InitTagged /\ [][NextTagged]_vars

\* the estimator called directly: calculate_slowdown_factor of each copy of
\* the module on an employee and a task, calculate_task_duration on a task
\* and a project (or no project)
EstimatorSkills == {"a", "b"}

EstimatorEfficiencies ==
    UNION {[S -> {50, 100, 130}] : S \in SUBSET EstimatorSkills}

EstimatorEmployees ==
    {[emp_id |-> 1, emp_skills |-> sk, emp_efficiency |-> ef,
      emp_current_load |-> ld, emp_max_daily_hours |-> 8] :
        sk \in SUBSET EstimatorSkills, ef \in EstimatorEfficiencies,
        ld \in {0, 8, 10}}

EstimatorSkillLists == {<<>>, <<"a">>, <<"a", "b">>, <<"a", "b", "c">>}

EstimatorAssignments ==
    {<<>>, <<1>>, <<2>>, <<9>>, <<1, 2>>, <<2, 1>>, <<9, 1>>}

EstimatorTasks ==
    {MkTask(1, Profile(dist, sk, asg)) :
        dist \in {<<2, 3, 4>>, <<1, 1, 2>>}, sk \in EstimatorSkillLists,
        asg \in EstimatorAssignments}

\* an employee whose efficiency for a skill is recorded as 0
ZeroEfficiencyEmployees ==
    {[emp_id |-> 1, emp_skills |-> EstimatorSkills,
      emp_efficiency |-> ("a" :> 0) @@ ("b" :> 100),
      emp_current_load |-> 0, emp_max_daily_hours |-> 8]}

EstimatorProjects ==
    {None} \cup
    {[MkProject(<<>>, <<>>) EXCEPT !.proj_employees = (1 :> e) @@ Employees] :
        e \in EstimatorEmployees \cup ZeroEfficiencyEmployees}

SlowdownCalls ==
    {"calculate_slowdown_factor", "eng.calculate_slowdown_factor",
     "rus.calculate_slowdown_factor"}

InitEstimator ==
    /\ \/ /\ task \in {t \in EstimatorTasks : t.task_assigned_to = <<>>
                            /\ t.task_duration_dist = <<2, 3, 4>>}
          /\ employee \in EstimatorEmployees
          /\ pc \in SlowdownCalls
          /\ project = None
       \/ /\ pc = "calculate_task_duration"
          /\ employee = None
          /\ task \in EstimatorTasks
          /\ project \in EstimatorProjects
    /\ slowdown = 0
    /\ duration = 0
    /\ random_duration = EmptyMap
    /\ Idle /\ NoMonteCarlo /\ NoTriangular /\ NoGenerator

NextEstimator ==
    \/ CallSlowdownFactor
    \/ CallSlowdownFactorEng
    \/ CallSlowdownFactorRus
    \/ CallTaskDuration

SpecEstimator == InitEstimator /\ [][NextEstimator]_vars

\* monte_carlo_simulation statement by statement under a seeded generator:
\* tasks without assignee, with an assignee who is slower, with an
\* overloaded one, with an id that is no employee, with a partial skill gap
TrialProfiles ==
    { Profile(<<2, 3, 4>>, <<"a">>, <<>>),
      Profile(<<2, 3, 4>>, <<"a">>, <<1>>) }

FactorProfiles ==
    { Profile(<<2, 3, 4>>, <<"a">>, <<9>>),
      Profile(<<2, 3, 4>>, <<"a">>, <<2, 1>>),
      Profile(<<1, 1, 3>>, <<"a">>, <<1, 2>>) } \cup GapProfiles

TrialTaskLists ==
    UNION {TaskLists(n, TrialProfiles) : n \in 0..MaxMCTasks}
        \cup TaskLists(1, FactorProfiles)

InitTrial ==
    /\ \E tl \in TrialTaskLists, dl \in MonteCarloDepLists :
           project = MkProject(tl, dl)
    /\ num_simulations \in 0..MaxTrials
    /\ sim = 0
    /\ project_durations = <<>>
    /\ pc = "monte_carlo_simulation"
    /\ random_duration = EmptyMap
    /\ rng \in {Seeded(s) : s \in 0..MaxSeed}
    /\ previous_durations = <<>>
    /\ Idle /\ NoTriangular /\ NoEstimator

NextTrial ==
    \/ MonteCarloSim
    \/ MonteCarloSample
    \/ MonteCarloForward
    \/ MonteCarloReturn

SpecTrial == InitTrial /\ [][NextTrial]_vars

\* the engine's three operations: calculate_schedule, calculate_backward_pass
\* and monte_carlo_simulation
Init == InitSchedule \/ InitMonteCarlo

Next == NextSchedule \/ NextMonteCarlo

Spec == Init /\ [][Next]_vars

(***************************************************************************)
(* Properties                                                              *)
(***************************************************************************)
Valid(proj) == Acyclic(proj) /\ WellFormed(proj)

Slack(t) == late_start[t] - early_start[t]

ZeroSlack == {t \in TaskIds(project) : Slack(t) = 0}

Roots(proj) == {t \in TaskIds(proj) : get_predecessors(proj, t) = <<>>}

Leaves(proj) == {t \in TaskIds(proj) : get_successors(proj, t) = <<>>}

RECURSIVE PathsOfLength(_, _)
PathsOfLength(proj, k) ==
    IF k = 1 THEN {<<t>> : t \in TaskIds(proj)}
    ELSE UNION {{Append(q, e[2]) :
                    e \in {d \in DepPairs(proj) :
                              d[1] = q[Len(q)] /\ d[2] \in TaskIds(proj)}} :
                q \in PathsOfLength(proj, k - 1)}

\* dependency paths: consecutive tasks are joined by a dependency
Paths(proj) == UNION {PathsOfLength(proj, k) : k \in 1..Len(proj.proj_tasks)}

RECURSIVE SumDurations(_, _)
SumDurations(q, dur) ==
    IF q = <<>> THEN 0 ELSE dur[Head(q)] + SumDurations(Tail(q), dur)

TotalDuration == SetMax(Values(early_finish)) - project.proj_start_date

\* q runs from a task without predecessors to a task without successors
\* and its durations add up to the project duration
FullLengthPath(q) ==
    /\ q[1] \in Roots(project)
    /\ q[Len(q)] \in Leaves(project)
    /\ SumDurations(q, task_duration) = TotalDuration

PositiveDurations == \A t \in DOMAIN task_duration : task_duration[t] > 0

\* C1: for an acyclic project whose dependencies name existing tasks, after
\* calculate_schedule and calculate_backward_pass every task has
\* slack = late_start - early_start >= 0.
C1_SlackNonNegative ==
    (pc = "done" /\ Valid(project)) =>
        \A t \in TaskIds(project) :
            /\ t \in DOMAIN late_start
            /\ t \in DOMAIN early_start
            /\ Slack(t) >= 0

C1_Witness ==
    /\ pc = "done"
    /\ Valid(project)
    /\ project.proj_dependencies # <<>>
    /\ \E t \in TaskIds(project) : Slack(t) > 0
    /\ \E t \in TaskIds(project) : Slack(t) = 0 /\ get_successors(project, t) # <<>>

\* C2: in an acyclic project every task the forward pass has dated has
\* early_finish >= early_start, every task the backward pass has dated has
\* late_finish >= late_start, and a finished run has dated every task.
C2_FinishNotBeforeStart ==
    Acyclic(project) =>
        /\ \A t \in DOMAIN early_finish : early_finish[t] >= early_start[t]
        /\ \A t \in DOMAIN late_start : late_finish[t] >= late_start[t]
        /\ pc \in {"sched_return", "rfwd_return", "back_for", "done"} =>
               DOMAIN early_finish = TaskIds(project)
        /\ pc = "done" => DOMAIN late_start = TaskIds(project)

C2_Witness ==
    /\ pc = "done"
    /\ Acyclic(project)
    /\ \E t \in TaskIds(project) :
          /\ get_predecessors(project, t) # <<>>
          /\ early_finish[t] > early_start[t]
          /\ late_finish[t] > late_start[t]

TraversalPcs ==
    {"sched_while", "sched_for", "sched_return", "rfwd_while", "rfwd_for",
     "rfwd_return", "back_for", "done"}

\* C4: when the dependency graph has a cycle, calculate_schedule and
\* forward_pass_with_random_duration check for it before the traversal and
\* end with a cyclic-dependency error; the traversal is never entered.
C4_CycleRejectedBeforeTraversal ==
    Cyclic(project) =>
        /\ pc \notin TraversalPcs
        /\ pc = "raised" => err = "CyclicDependencyError"

ScanEnd == pc \in {"sched_for", "rfwd_for"} /\ idx > Len(project.proj_tasks)

\* the while loop of the running entry point, run to its end from the
\* traversal state the call is in
RestOfPass ==
    IF pc = "sched_while"
    THEN ScheduleLoop(project, task_duration, PassState)
    ELSE RandomForwardLoop(project, random_duration, PassState)

\* C5: on an acyclic project whose dependencies name existing tasks, every
\* full scan of the while loop processes at least one task, the loop does
\* not hang, and the forward pass returns with every task processed.
C5_ForwardPassTerminates ==
    Valid(project) =>
        /\ ScanEnd => progress >= 1
        /\ pc \in {"sched_while", "rfwd_while"} => ~RestOfPass.hangs
        /\ pc \in {"sched_return", "rfwd_return"} =>
               processed = TaskIds(project)

C5_Witness ==
    /\ Valid(project)
    /\ pc = "rfwd_return"
    /\ Len(project.proj_tasks) >= 3
    /\ processed = TaskIds(project)
    /\ \E t \in TaskIds(project) :
          \E p \in PredIds(project, t) : p > t

ZeroWidth(proj) ==
    \A i \in DOMAIN proj.proj_tasks :
        /\ proj.proj_tasks[i].task_duration_dist[1]
              = proj.proj_tasks[i].task_duration_dist[2]
        /\ proj.proj_tasks[i].task_duration_dist[2]
              = proj.proj_tasks[i].task_duration_dist[3]

Unassigned(proj) ==
    \A i \in DOMAIN proj.proj_tasks : proj.proj_tasks[i].task_assigned_to = <<>>

DeterministicDays(proj) ==
    Days(SetMax(Values(calculate_schedule(proj).early_finish)) - proj.proj_start_date)

\* C6: with low = most_likely = high for every task and no assigned
\* employee, monte_carlo_simulation raises nothing and every recorded
\* sample equals the whole-day project duration of calculate_schedule.
C6_ZeroWidthMatchesSchedule ==
    (Valid(project) /\ ZeroWidth(project) /\ Unassigned(project)) =>
        /\ pc # "raised"
        /\ \A i \in DOMAIN project_durations :
               project_durations[i] = DeterministicDays(project)

\* C7: random_triangular with high = low returns low for every draw and
\* never raises.
C7_DegenerateReturnsLow ==
    (tri_args # <<>> /\ tri_args[3] = tri_args[1]) =>
        /\ pc # "raised"
        /\ pc = "tri_return" => tri_result = tri_args[1] * SampleDen

\* C8: for low <= most_likely <= high with low < high the sample lies in
\* [low, high]: in [low, most_likely] when u < c and in [most_likely, high]
\* otherwise.
C8_SampleWithinBounds ==
    (pc = "tri_return" /\ tri_args[1] < tri_args[3]) =>
        LET low == tri_args[1]
            most_likely == tri_args[2]
            high == tri_args[3]
            u == tri_args[4]
        IN  /\ low * SampleDen <= tri_result
            /\ tri_result <= high * SampleDen
            /\ IF u[1] * (high - low) < u[2] * (most_likely - low)
               THEN tri_result <= most_likely * SampleDen
               ELSE tri_result >= most_likely * SampleDen

C8_Witness ==
    /\ pc = "tri_return"
    /\ tri_args[1] < tri_args[2]
    /\ tri_args[2] < tri_args[3]
    /\ tri_args[4][1] > 0
    /\ tri_result > tri_args[1] * SampleDen
    /\ tri_result < tri_args[2] * SampleDen

\* C9: for a project without tasks calculate_schedule returns three empty
\* maps and monte_carlo_simulation returns an empty list for every trial
\* count; neither raises nor enters the traversal.
C9_EmptyProject ==
    project.proj_tasks = <<>> =>
        /\ pc \notin {"sched_for", "mc_hang"}
        /\ pc = "raised" => (err = "ValueError" /\ sim = 0)
        /\ pc = "sched_return" =>
               /\ early_start = EmptyMap
               /\ early_finish = EmptyMap
               /\ task_duration = EmptyMap
        /\ pc \in {"monte_carlo_simulation", "mc_return"} =>
               project_durations = <<>>

C9_Witness ==
    /\ project.proj_tasks = <<>>
    /\ pc = "mc_return"
    /\ num_simulations = MaxTrials
    /\ sim = num_simulations
    /\ project_durations = <<>>

\* C10: calculate_schedule, calculate_backward_pass and
\* monte_carlo_simulation never change the project, and the backward pass
\* never changes the early_finish and task_duration maps it is given.
C10_EngineReadsOnly ==
    [][/\ project' = project
       /\ pc \in {"sched_return", "back_for"} =>
              /\ early_finish' = early_finish
              /\ task_duration' = task_duration]_vars

C10_Witness ==
    /\ pc = "done"
    /\ Len(project.proj_tasks) >= 2
    /\ project.proj_dependencies # <<>>
    /\ DOMAIN late_start = TaskIds(project)
    /\ DOMAIN task_duration = TaskIds(project)

ScenarioProject ==
    [MkProject(<<MkTask(1, Profile(<<2, 3, 4>>, <<"a">>, <<>>)),
                 MkTask(2, Profile(<<4, 5, 6>>, <<"a">>, <<>>))>>,
               <<MkDep(<<1, 2>>)>>)
        EXCEPT !.proj_start_date = 0]

InDays(m) == [t \in DOMAIN m |-> [days |-> m[t] \div TicksPerDay,
                                  rest |-> m[t] % TicksPerDay]]

Whole(d) == [days |-> d, rest |-> 0]

C12_EndToEndScenario ==
    (project = ScenarioProject /\ pc = "done") =>
        /\ InDays(task_duration) = (1 :> Whole(3)) @@ (2 :> Whole(5))
        /\ InDays(early_start) = (1 :> Whole(0)) @@ (2 :> Whole(3))
        /\ InDays(early_finish) = (1 :> Whole(3)) @@ (2 :> Whole(8))
        /\ InDays(late_finish) = (1 :> Whole(3)) @@ (2 :> Whole(8))
        /\ InDays(late_start) = (1 :> Whole(0)) @@ (2 :> Whole(3))
        /\ \A t \in {1, 2} : Slack(t) = 0

C12_Witness == project = ScenarioProject /\ pc = "done"

\* C17: projects that differ only in the dep_type, dep_lag or dep_mandatory
\* values of their dependencies get identical early_start, early_finish,
\* late_start and late_finish maps and, under the same draws, identical
\* Monte Carlo samples.
Retagged(proj) ==
    {[proj EXCEPT !.proj_dependencies = dl] :
        dl \in Retaggings(proj.proj_dependencies)}

RECURSIVE SeededSamples(_, _, _, _)
SeededSamples(proj, seed, n, k) ==
    IF k > n THEN <<>>
    ELSE LET draws == [i \in DOMAIN proj.proj_tasks |->
                          Stream(seed, (k - 1) * Len(proj.proj_tasks) + i)]
         IN  Trial(proj, draws).samples \o SeededSamples(proj, seed, n, k + 1)

Reordered(proj) ==
    {[proj EXCEPT !.proj_tasks = [i \in DOMAIN proj.proj_tasks |->
                                     proj.proj_tasks[f[i]]]] :
        f \in Permutations(DOMAIN proj.proj_tasks)}

C18_InsertionOrderIrrelevant ==
    (pc = "sched_return" /\ Acyclic(project)) =>
        \A other \in Reordered(project) :
            LET fwd == calculate_schedule(other)
            IN  /\ ~fwd.hangs
                /\ fwd.raised = ""
                /\ fwd.early_start = early_start
                /\ fwd.early_finish = early_finish

C18_Witness ==
    /\ pc = "sched_return"
    /\ Acyclic(project)
    /\ Len(project.proj_tasks) = 3
    /\ DepPairs(project) = {<<3, 2>>, <<2, 1>>}
    /\ early_finish[1] > early_finish[2]

\* C19: monte_carlo_simulation(project, n) returns a list of length at most
\* n; for an acyclic project with at least one task the length is exactly
\* n, and the list is empty only when the project has no task or n is 0.
C19_OneSamplePerTrial ==
    /\ Len(project_durations) <= sim
    /\ sim <= num_simulations
    /\ pc = "mc_return" =>
           /\ Len(project_durations) <= num_simulations
           /\ (Acyclic(project) /\ project.proj_tasks # <<>>) =>
                  Len(project_durations) = num_simulations
           /\ project_durations = <<>> =>
                  (project.proj_tasks = <<>> \/ num_simulations = 0)

C19_Witness ==
    /\ pc = "mc_return"
    /\ num_simulations = 2
    /\ Len(project_durations) = 2
    /\ Len(project.proj_tasks) = 2
    /\ DepPairs(project) = {<<2, 1>>}

\* C20: in calculate_backward_pass on an acyclic project with strictly
\* positive durations, when a task is processed late_start of every one of
\* its successors has been computed, so the project_deadline default of
\* late_start.get is never used.
BackwardTask == tasks_sorted[bidx]

AtBackwardIteration == pc = "back_for" /\ bidx <= Len(tasks_sorted)

C20_SuccessorsComputedFirst ==
    (AtBackwardIteration /\ Acyclic(project) /\ PositiveDurations) =>
        SuccIds(project, BackwardTask) \subseteq DOMAIN late_start

\* C20 as amended: the same for an acyclic project whose dependencies
\* reference only existing task ids; the order is then reverse topological.
Position(seq, x) == CHOOSE i \in DOMAIN seq : seq[i] = x

C20_SuccessorsComputedFirstIfWellFormed ==
    (pc = "back_for" /\ Valid(project) /\ PositiveDurations) =>
        /\ \A pair \in DepPairs(project) :
               Position(tasks_sorted, pair[2]) < Position(tasks_sorted, pair[1])
        /\ bidx <= Len(tasks_sorted) =>
               SuccIds(project, BackwardTask) \subseteq DOMAIN late_start

C20_Witness ==
    /\ AtBackwardIteration
    /\ Valid(project)
    /\ PositiveDurations
    /\ DepPairs(project) = {<<3, 1>>, <<1, 2>>}
    /\ BackwardTask = 3
    /\ late_start[1] < project_deadline

\* the estimator calls that have ended
SlowdownReturns ==
    {"slowdown_return", "eng.slowdown_return", "rus.slowdown_return"}

SlowdownCallEnded == employee # None /\ pc \in SlowdownReturns \cup {"raised"}

DurationCallEnded ==
    employee = None /\ task # None /\ pc \in {"duration_return", "raised"}

Missing(emp, tsk) ==
    Len(SelectSeq(tsk.task_skills, LAMBDA skill : skill \notin emp.emp_skills))

Total(tsk) == Len(tsk.task_skills)

MinEfficiency(emp, tsk) ==
    SetMin({IF skill \in DOMAIN emp.emp_efficiency
               THEN emp.emp_efficiency[skill] ELSE DefaultEfficiency :
            skill \in Range(tsk.task_skills)})

C14_PartialGapFactor ==
    (SlowdownCallEnded /\ 0 < Missing(employee, task)
        /\ Missing(employee, task) < Total(task)) =>
        /\ pc # "raised"
        /\ slowdown * Total(task) =
               2 * SlowDen * Total(task) + Missing(employee, task) * SlowDen

\* C15: when the primary assignee has none of the task's required skills
\* (a non-empty list), calculate_slowdown_factor returns exactly 3.0 and
\* calculate_task_duration returns exactly three times the PERT base.
Base(tsk) == PertSum(tsk) * (TicksPerDay \div PertDen)

Resolves(tsk, proj) ==
    /\ proj # None
    /\ tsk.task_assigned_to # <<>>
    /\ tsk.task_assigned_to[1] \in DOMAIN proj.proj_employees

Primary(tsk, proj) == proj.proj_employees[tsk.task_assigned_to[1]]

NoneOfSkills(emp, tsk) == Total(tsk) > 0 /\ Missing(emp, tsk) = Total(tsk)

C15_TotalMismatchTriples ==
    /\ (SlowdownCallEnded /\ NoneOfSkills(employee, task)) =>
           pc # "raised" /\ slowdown = 3 * SlowDen
    /\ (DurationCallEnded /\ Resolves(task, project)
           /\ NoneOfSkills(Primary(task, project), task)) =>
           pc # "raised" /\ duration = 3 * Base(task)

C15_Witness ==
    /\ DurationCallEnded
    /\ Resolves(task, project)
    /\ NoneOfSkills(Primary(task, project), task)
    /\ Primary(task, project).emp_current_load > 8
    /\ Primary(task, project).emp_efficiency # <<>>
    /\ duration = 21 * (TicksPerDay \div PertDen)

\* C16: calculate_task_duration returns the unadjusted PERT base, without
\* raising, when project is None, when the assignment list is empty or when
\* the first assigned id is not an employee of the project; otherwise its
\* outcome is base * calculate_slowdown_factor(first assignee, task), so
\* later assignees have no effect.
C16_FirstAssigneeDecides ==
    DurationCallEnded =>
        IF ~Resolves(task, project)
        THEN pc = "duration_return" /\ duration = Base(task)
        ELSE LET factor == calculate_slowdown_factor(Primary(task, project), task)
             IN  IF factor.raised # ""
                 THEN pc = "raised" /\ err = factor.raised
                 ELSE /\ pc = "duration_return"
                      /\ duration = (Base(task) \div SlowDen) * factor.value

C16_Witness ==
    /\ DurationCallEnded
    /\ pc = "duration_return"
    /\ task.task_assigned_to = <<2, 1>>
    /\ duration # Base(task)
    /\ duration # calculate_task_duration(
                      [task EXCEPT !.task_assigned_to = <<1, 2>>], project).value

\* C21: in the maps calculate_backward_pass returns for an acyclic project
\* with durations >= 0 (zero durations and early_finish ties included),
\* every task without successors has late_finish = max(early_finish) and
\* every task with successors has late_finish equal to the minimum of the
\* final late_start of its successors.
C21_LateFinishIsMinLateStart ==
    (pc = "done" /\ Valid(project)) =>
        \A t \in TaskIds(project) :
            IF get_successors(project, t) = <<>>
            THEN late_finish[t] = SetMax(Values(early_finish))
            ELSE late_finish[t] =
                     SetMin({late_start[s] : s \in SuccIds(project, t)})

\* C22: during the forward pass a processed task stays processed, a task
\* becomes processed only in a state where all of its predecessors are
\* already processed, its early_start and early_finish entries are written
\* in that step and never change afterwards, and a pass that returns has
\* processed every task.
C22_ProcessedOnceAfterPredecessors ==
    [][/\ processed \subseteq processed'
       /\ \A t \in processed' \ processed :
              /\ PredIds(project, t) \subseteq processed
              /\ t \notin DOMAIN early_start
              /\ t \notin DOMAIN early_finish
       /\ DOMAIN early_start' = processed'
       /\ DOMAIN early_finish' = processed'
       /\ \A t \in processed :
              /\ early_start'[t] = early_start[t]
              /\ early_finish'[t] = early_finish[t]
       /\ pc' \in {"sched_return", "rfwd_return"} =>
              processed' = TaskIds(project)]_vars

C22_Witness ==
    /\ pc = "rfwd_return"
    /\ Len(project.proj_tasks) = 3
    /\ DepPairs(project) = {<<2, 1>>, <<3, 1>>}
    /\ processed = TaskIds(project)
    /\ early_finish[2] # early_finish[3]
    /\ early_start[1] = SetMax({early_finish[2], early_finish[3]})

\* C23: in the maps a forward pass returns, early_start of a task without
\* predecessors is the project start date and early_start of any other
\* task is the maximum early_finish of its predecessors, so that
\* early_start(b) >= early_finish(a) for every dependency a to b.
C23_EarlyStartIsMaxPredecessorFinish ==
    pc \in {"sched_return", "rfwd_return"} =>
        /\ \A t \in TaskIds(project) :
               IF get_predecessors(project, t) = <<>>
               THEN early_start[t] = project.proj_start_date
               ELSE early_start[t] =
                        SetMax({early_finish[p] : p \in PredIds(project, t)})
        /\ \A pair \in DepPairs(project) :
               pair[2] \in TaskIds(project) =>
                   early_start[pair[2]] >= early_finish[pair[1]]

C23_Witness ==
    /\ pc = "sched_return"
    /\ Len(project.proj_tasks) = 3
    /\ DepPairs(project) = {<<1, 3>>, <<2, 3>>}
    /\ early_finish[1] < early_finish[2]
    /\ early_start[3] = early_finish[2]
    /\ early_start[1] = project.proj_start_date

\* C24: for every acyclic project, forward_pass_with_random_duration called
\* with the duration map calculate_schedule computed returns the early_finish
\* map calculate_schedule returns; where calculate_schedule does not return
\* (a predecessor id that is no task), neither does the other entry point.
C24_EntryPointsAgree ==
    Acyclic(project) =>
        /\ pc = "sched_return" =>
               LET other == forward_pass_with_random_duration(project, task_duration)
               IN  ~other.hangs /\ other.early_finish = early_finish
        /\ (pc = "sched_while" /\ processed = {}) =>
               forward_pass_with_random_duration(project, task_duration).hangs
                   = ScheduleLoop(project, task_duration, FreshPass).hangs

C24_Witness ==
    /\ pc = "sched_return"
    /\ Len(project.proj_tasks) = 2
    /\ DepPairs(project) = {<<2, 1>>}
    /\ project.proj_tasks[1].task_assigned_to = <<1>>
    /\ early_finish[2] > project.proj_start_date
    /\ early_finish[1] > early_finish[2]
    /\ forward_pass_with_random_duration(project, task_duration).early_finish
           = early_finish

\* the draws taken so far by the running trial, and the i-th of them
Drawn == IF pc = "raised" THEN idx ELSE idx - 1

TrialDraw(i) == Stream(rng.seed, rng.taken - Drawn + i)

TrialSample(i) ==
    random_triangular(project.proj_tasks[i].task_duration_dist[1],
                      project.proj_tasks[i].task_duration_dist[2],
                      project.proj_tasks[i].task_duration_dist[3],
                      TrialDraw(i))

\* the factor of the task at position i: the slowdown factor of its first
\* assignee when that id is an employee of the project, 1 otherwise
TrialFactor(i) ==
    IF Resolves(project.proj_tasks[i], project)
    THEN calculate_slowdown_factor(
             Primary(project.proj_tasks[i], project), project.proj_tasks[i])
    ELSE Ok(SlowDen)

\* C25: in every trial of monte_carlo_simulation the duration entered for a
\* task is its triangular sample times the factor calculate_task_duration
\* applies to the PERT base, which is calculate_slowdown_factor of the first
\* assignee when that id is an employee of the project and 1 otherwise; a
\* trial raises only what the sample or that factor raises.
C25_SampleTimesPlanFactor ==
    pc \in {"mc_for", "raised"} =>
        /\ \A i \in 1..(idx - 1) :
               LET tsk == project.proj_tasks[i]
                   planned == calculate_task_duration(tsk, project)
               IN  /\ TrialSample(i).raised = ""
                   /\ TrialFactor(i).raised = ""
                   /\ planned.raised = ""
                   /\ planned.value * SlowDen = Base(tsk) * TrialFactor(i).value
                   /\ random_duration[tsk.task_id] =
                          TrialSample(i).value * TrialFactor(i).value
        /\ pc = "raised" =>
               IF TrialSample(idx).raised # ""
               THEN err = TrialSample(idx).raised
               ELSE /\ err # ""
                    /\ err = TrialFactor(idx).raised
                    /\ err = calculate_task_duration(
                                 project.proj_tasks[idx], project).raised

C25_Witness ==
    /\ pc = "mc_for"
    /\ sim = 2
    /\ idx = 2
    /\ project.proj_tasks[1].task_assigned_to = <<2, 1>>
    /\ TrialFactor(1).value = (11 * SlowDen) \div 10
    /\ TrialSample(1).value > 2 * SampleDen
    /\ random_duration[1] = TrialSample(1).value * TrialFactor(1).value

\* the exact duration of the trial whose forward pass has just returned
TrialExact == SetMax(Values(early_finish)) - project.proj_start_date

LastSample == project_durations[Len(project_durations)]

TrialRecorded ==
    /\ pc \in {"monte_carlo_simulation", "mc_return"}
    /\ sim > 0
    /\ DOMAIN early_finish # {}

\* C26: every sample monte_carlo_simulation records is a non-negative
\* integer, the whole-day floor of max(early_finish) - project start of its
\* trial: it does not exceed that exact duration and is less than one day
\* below it.
C26_SampleIsFloorOfDuration ==
    /\ \A k \in DOMAIN project_durations : project_durations[k] \in Nat
    /\ TrialRecorded =>
           /\ Len(project_durations) = sim
           /\ LastSample * TicksPerDay <= TrialExact
           /\ TrialExact < (LastSample + 1) * TicksPerDay

C26_Witness ==
    /\ TrialRecorded
    /\ pc = "mc_return"
    /\ Len(project_durations) = 2
    /\ LastSample >= 5
    /\ TrialExact - LastSample * TicksPerDay > TicksPerDay \div 2

\* the dependency paths of the project that end at task t
PathsTo(proj, t) == {q \in Paths(proj) : q[Len(q)] = t}

LongestPathTo(t) ==
    SetMax({SumDurations(q, task_duration) : q \in PathsTo(project, t)})

\* C27: in the maps calculate_schedule returns for an acyclic project,
\* early_finish(t) - project start is the largest sum of task durations over
\* the dependency paths that end at t, and max(early_finish) - project
\* start is the largest such sum over all paths.
C27_EarlyFinishIsLongestPath ==
    (pc = "sched_return" /\ Acyclic(project)) =>
        /\ \A t \in TaskIds(project) :
               early_finish[t] - project.proj_start_date = LongestPathTo(t)
        /\ project.proj_tasks # <<>> =>
               TotalDuration =
                   SetMax({SumDurations(q, task_duration) : q \in Paths(project)})

C27_Witness ==
    /\ pc = "sched_return"
    /\ Acyclic(project)
    /\ Len(project.proj_tasks) = 3
    /\ DepPairs(project) = {<<1, 2>>, <<3, 2>>}
    /\ task_duration[1] < task_duration[3]
    /\ task_duration[2] > 0
    /\ early_finish[2] - project.proj_start_date
           = task_duration[3] + task_duration[2]

\* C28: for a task whose required-skill list is empty every copy of
\* calculate_slowdown_factor returns 3.0 for every employee, and
\* calculate_task_duration returns three times the PERT base when the
\* task's first assignee is an employee of the project.
C28_EmptySkillListTriples ==
    /\ (SlowdownCallEnded /\ task.task_skills = <<>>) =>
           pc \in SlowdownReturns /\ slowdown = 3 * SlowDen
    /\ (DurationCallEnded /\ Resolves(task, project)
           /\ task.task_skills = <<>>) =>
           pc = "duration_return" /\ duration = 3 * Base(task)

C28_Witness ==
    /\ DurationCallEnded
    /\ task.task_skills = <<>>
    /\ task.task_assigned_to = <<1>>
    /\ Resolves(task, project)
    /\ Primary(task, project).emp_skills = EstimatorSkills
    /\ Primary(task, project).emp_current_load = 0
    /\ task.task_duration_dist = <<2, 3, 4>>
    /\ duration = 9 * TicksPerDay

ReturnedPcs == {"sched_return", "rfwd_return", "back_for", "done"}

\* C29: if some dependency's from-task id is not a key of the task map,
\* the forward pass of calculate_schedule and of
\* forward_pass_with_random_duration never returns, also when the
\* dependency relation is acyclic.
C29_UnknownFromIdNeverReturns ==
    (Acyclic(project)
        /\ \E pair \in DepPairs(project) : pair[1] \notin TaskIds(project)) =>
        pc \notin ReturnedPcs

\* C29 as amended: if some dependency leads from an id that is not a key of
\* the task map to a task of the project, that task is never processed,
\* every scan the while loop still has to make leaves it unprocessed, and
\* neither forward pass returns.
C29_UnknownPredecessorNeverReturns ==
    \A pair \in DepPairs(project) :
        (pair[1] \notin TaskIds(project) /\ pair[2] \in TaskIds(project)) =>
            /\ pair[2] \notin processed
            /\ pc \notin ReturnedPcs
            /\ pc \in {"sched_while", "rfwd_while"} => RestOfPass.hangs

C29_Witness ==
    /\ pc = "sched_for"
    /\ Acyclic(project)
    /\ Len(project.proj_tasks) = 2
    /\ DepPairs(project) = {<<3, 2>>}
    /\ processed = {1}
    /\ idx > Len(project.proj_tasks)
    /\ progress = 0

\* C30: calculate_backward_pass called with the empty maps calculate_schedule
\* returns for a project without tasks raises ValueError (max of an empty
\* sequence) before it builds any map; it never returns empty late_start
\* and late_finish maps.
C30_EmptyBackwardPassRaises ==
    [][(pc = "sched_return" /\ project.proj_tasks = <<>>) =>
           /\ early_finish = EmptyMap
           /\ task_duration = EmptyMap
           /\ pc' = "raised"
           /\ err' = "ValueError"
           /\ late_start' = EmptyMap
           /\ late_finish' = EmptyMap
           /\ calculate_backward_pass(project, early_finish, task_duration).raised
                  = "ValueError"]_vars

C30_Witness ==
    /\ project.proj_tasks = <<>>
    /\ project.proj_dependencies = <<>>
    /\ pc = "raised"
    /\ err = "ValueError"
    /\ early_finish = EmptyMap
    /\ late_finish = EmptyMap
====
